---- MODULE Spec2Model ----
(***************************************************************************)
(* Model of pylas/point/packing.py: the mask-driven pack / unpack          *)
(* primitives and the record-level unpack_sub_fields / repack_sub_fields.  *)
(*                                                                         *)
(* Columns are NumPy arrays.  The caller's container columns and the       *)
(* sub-field columns are uint8 (np.uint8 is unpack's default dtype and the *)
(* element type of every composed field); a column is modelled as the      *)
(* sequence of its element values, and a returned array as a record that   *)
(* also carries its dtype.  Arithmetic follows NumPy 1.x, the NumPy the    *)
(* module was written for: an operation between a uint8 array and a Python *)
(* int takes the smallest type holding the int (value-based casting), so   *)
(* uint8 & non-negative mask stays uint8, and uint8 & ~mask (a negative    *)
(* Python int) is an int16 array.                                          *)
(***************************************************************************)
EXTENDS Integers, Sequences, FiniteSets, TLC

VARIABLES
    pc,               \* where the caller is: "idle", "prim", "unpacked", "repacking", "repacked", "failed"
    array,            \* the caller's container column handed to pack / unpack
    array0,           \* the content of array when the caller allocated it
    sub_fields,       \* the two sub-fields (mask, value column) the caller packs into array
    order,            \* the sub-fields packed in place into array so far, in call order
    last,             \* the last primitive call: its arguments, the array before it, its outcome
    point_format,     \* the point format descriptor of the record-level call
    data,             \* unpack_sub_fields' input batch
    point_record,     \* unpack_sub_fields' output batch
    structured_array, \* repack_sub_fields' input batch
    repacked_array,   \* repack_sub_fields' output batch, as built so far
    dim_i,            \* repack_sub_fields' position in repacked_array.dtype.names
    sub_i,            \* _repack_composed_dim's position in sub_fields
    error,            \* the exception the record-level call raised, if any
    origin            \* the batch the caller started from and the calls made on it

vars == <<pc, array, array0, sub_fields, order, last, point_format, data,
          point_record, structured_array, repacked_array, dim_i, sub_i, error, origin>>

(***************************************************************************)
(* Bounds and element types                                                *)
(***************************************************************************)
\* The largest number of records in a batch (elements in a column); 0 is the empty batch.
MaxLen == 2

\* np.uint8: 8 bits per element.
UInt8Bits == 8

Pow2(n) == 2 ^ n

UInt8Mod == Pow2(UInt8Bits)

(***************************************************************************)
(* Integer bit operations (Python ints and NumPy integer elements)         *)
(***************************************************************************)
RECURSIVE BitAnd(_, _)
BitAnd(a, b) ==
    IF a = 0 \/ b = 0 THEN 0
    ELSE (a % 2) * (b % 2) + 2 * BitAnd(a \div 2, b \div 2)

RECURSIVE BitOr(_, _)
BitOr(a, b) ==
    IF a = 0 THEN b
    ELSE IF b = 0 THEN a
    ELSE (IF (a % 2) + (b % 2) > 0 THEN 1 ELSE 0) + 2 * BitOr(a \div 2, b \div 2)

\* a & ~mask for a >= 0 and mask >= 0: ~mask = -(mask + 1) keeps exactly the
\* bits of a that mask does not have.
AndInvert(a, mask) == a - BitAnd(a, mask)

\* val & -val for val >= 0: the lowest set bit of val alone, 0 for val = 0.
RECURSIVE AndNeg(_)
AndNeg(val) ==
    IF val = 0 THEN 0
    ELSE IF val % 2 = 1 THEN 1
    ELSE 2 * AndNeg(val \div 2)

\* int.bit_length()
RECURSIVE bit_length(_)
bit_length(n) == IF n = 0 THEN 0 ELSE 1 + bit_length(n \div 2)

\* least_significant_bit(val): (val & -val).bit_length() - 1.  No check of
\* val: for val = 0 this is 0.bit_length() - 1 = -1.
least_significant_bit(val) == bit_length(AndNeg(val)) - 1

\* x >> n elementwise in NumPy for x >= 0.  A negative count only occurs for
\* mask = 0, where x = (source & 0) = 0 and every outcome of the shift is 0.
RightShift(x, n) == IF n >= 0 THEN x \div Pow2(n) ELSE 0

\* uint8 x << n for n >= 0, wrapping at 8 bits.
LeftShiftU8(x, n) == (x * Pow2(n)) % UInt8Mod

RECURSIVE ColMax(_)
ColMax(col) ==
    IF Len(col) = 1 THEN col[1]
    ELSE LET m == ColMax(Tail(col)) IN IF col[1] > m THEN col[1] ELSE m

(***************************************************************************)
(* Values returned or raised by a call                                     *)
(***************************************************************************)
NoArray == [kind |-> "None", dtype |-> "", vals |-> <<>>]

NdArray(dtype, vals) == [kind |-> "ndarray", dtype |-> dtype, vals |-> vals]

NoError == [type |-> "none", value |-> 0, max |-> 0, sub_field |-> "", dim |-> ""]

\* OverflowError("value ({}) is greater than allowed (max: {})")
OverflowError(value, max) ==
    [type |-> "OverflowError", value |-> value, max |-> max, sub_field |-> "", dim |-> ""]

\* ValueError: Python's "negative shift count" (mask >> -1) and NumPy's
\* "zero-size array to reduction operation maximum which has no identity".
ValueError == [type |-> "ValueError", value |-> 0, max |-> 0, sub_field |-> "", dim |-> ""]

(***************************************************************************)
(* unpack(source_array, mask, dtype=np.uint8)                              *)
(***************************************************************************)
\* A faulty variant of unpack: the masked bits are not shifted down.
unpack_no_shift(source_array, mask) ==
    NdArray("uint8", [i \in 1..Len(source_array) |->
                          BitAnd(source_array[i], mask) % UInt8Mod])

unpack(source_array, mask) ==
    LET lsb == least_significant_bit(mask)
    IN NdArray("uint8", [i \in 1..Len(source_array) |->
                   RightShift(BitAnd(source_array[i], mask), lsb) % UInt8Mod])

(***************************************************************************)
(* pack(array, sub_field_array, mask, inplace)                             *)
(* The result is [raised, array, ret]: the exception, the caller's array   *)
(* after the call, and the returned value.                                 *)
(***************************************************************************)
PackResult(raised, arr, ret) == [raised |-> raised, array |-> arr, ret |-> ret]

\* A faulty variant of PackedVals: the masked bits of the destination are not cleared.
PackedVals_no_clear(arr, sub_field_array, mask, lsb) ==
    [i \in 1..Len(arr) |->
        BitOr(arr[i], BitAnd(LeftShiftU8(sub_field_array[i], lsb), mask))]

\* array & ~mask, then | ((sub_field_array << lsb) & mask), elementwise.
PackedVals(arr, sub_field_array, mask, lsb) ==
    [i \in 1..Len(arr) |->
        BitOr(AndInvert(arr[i], mask),
              BitAnd(LeftShiftU8(sub_field_array[i], lsb), mask))]

\* A faulty variant of pack: the masked bits are cleared before the values are validated.
pack_mutate_first(arr, sub_field_array, mask, inplace) ==
    LET lsb == least_significant_bit(mask)
        cleared == [i \in 1..Len(arr) |-> AndInvert(arr[i], mask)]
    IN IF lsb < 0 \/ Len(sub_field_array) = 0
       THEN PackResult(ValueError, arr, NoArray)
       ELSE LET max_value == mask \div Pow2(lsb)
                out == PackedVals(arr, sub_field_array, mask, lsb)
            IN IF ColMax(sub_field_array) > max_value
               THEN PackResult(OverflowError(ColMax(sub_field_array), max_value),
                               IF inplace THEN cleared ELSE arr, NoArray)
               ELSE IF inplace THEN PackResult(NoError, out, NoArray)
                    ELSE PackResult(NoError, arr, NdArray("int16", out))

\* A faulty variant of pack: the destination is overwritten instead of masked.
pack_overwrite(arr, sub_field_array, mask, inplace) ==
    LET lsb == least_significant_bit(mask)
    IN IF lsb < 0 \/ Len(sub_field_array) = 0
       THEN PackResult(ValueError, arr, NoArray)
       ELSE LET max_value == mask \div Pow2(lsb)
                out == [i \in 1..Len(arr) |->
                           BitAnd(LeftShiftU8(sub_field_array[i], lsb), mask)]
            IN IF ColMax(sub_field_array) > max_value
               THEN PackResult(OverflowError(ColMax(sub_field_array), max_value), arr, NoArray)
               ELSE IF inplace THEN PackResult(NoError, out, NoArray)
                    ELSE PackResult(NoError, arr, NdArray("int16", out))

pack(arr, sub_field_array, mask, inplace) ==
    LET lsb == least_significant_bit(mask)
    IN IF lsb < 0
       \* int(mask >> lsb) with lsb = -1: Python raises ValueError (negative shift count).
       THEN PackResult(ValueError, arr, NoArray)
       ELSE IF Len(sub_field_array) = 0
       \* sub_field_array.max() of an empty array: NumPy raises ValueError.
       THEN PackResult(ValueError, arr, NoArray)
       ELSE LET max_value == mask \div Pow2(lsb)
                out == PackedVals(arr, sub_field_array, mask, lsb)
            IN IF ColMax(sub_field_array) > max_value
               THEN PackResult(OverflowError(ColMax(sub_field_array), max_value), arr, NoArray)
               ELSE IF inplace
                    \* array[:] = ...: the caller's uint8 buffer is written, None is returned.
                    THEN PackResult(NoError, [i \in 1..Len(out) |-> out[i] % UInt8Mod], NoArray)
                    \* array = array & ~mask rebinds the local name to an int16 array, and
                    \* .astype(array.dtype) then casts to int16: the returned array is int16.
                    ELSE PackResult(NoError, arr, NdArray("int16", out))

(***************************************************************************)
(* Record batches (NumPy structured arrays) and point format descriptors   *)
(***************************************************************************)
Range(seq) == {seq[i] : i \in 1..Len(seq)}

\* A structured array: its dtype.names in order, its length, its columns.
Batch(names, n, cols) == [names |-> names, n |-> n, cols |-> cols]

NoBatch == Batch(<<>>, 0, <<>>)

\* np.zeros_like(batch, dtype): the shape of batch, the fields of dtype, all zero.
zeros_like(batch, dtype) ==
    Batch(dtype, batch.n, [nm \in Range(dtype) |-> [i \in 1..batch.n |-> 0]])

\* The physical schema of the modelled point formats and its expanded schema.
PackedNames == <<"bit_fields", "intensity", "raw_classification">>

UnpackedNames ==
    <<"return_number", "number_of_returns", "intensity", "classification", "class_flags">>

\* The masks of bit_fields' two sub-fields in each modelled point format:
\* 1: disjoint, contiguous, covering all 8 bits (LAS formats 6+);
\* 2: disjoint, contiguous, bits 6 and 7 not covered;
\* 3: disjoint and covering, not contiguous;
\* 4: overlapping.
BitFieldMasks == << <<15, 240>>, <<7, 56>>, <<5, 250>>, <<15, 60>> >>

FormatIds == 1..Len(BitFieldMasks)

SubField(name, mask) == [name |-> name, mask |-> mask]

\* point_format.composed_fields: composed field name -> list of SubField.
ComposedFields(f) ==
    [bit_fields |-> << SubField("return_number", BitFieldMasks[f][1]),
                       SubField("number_of_returns", BitFieldMasks[f][2]) >>,
     raw_classification |-> << SubField("classification", 31),
                               SubField("class_flags", 224) >>]

\* The descriptor handed to repack_sub_fields: .dtype is the physical schema.
PackedFormat(f) == [id |-> f, dtype |-> PackedNames, composed_fields |-> ComposedFields(f)]

\* The descriptor handed to unpack_sub_fields: .dtype is the expanded schema.
UnpackedFormat(f) == [id |-> f, dtype |-> UnpackedNames, composed_fields |-> ComposedFields(f)]

NoFormat == [id |-> 0, dtype |-> <<>>, composed_fields |-> <<>>]

(***************************************************************************)
(* unpack_sub_fields(data, point_format)                                   *)
(* The result is [raised, ret].                                            *)
(***************************************************************************)
BatchResult(raised, ret) == [raised |-> raised, ret |-> ret]

\* for sub_field in composed_dims[dim_name]:
\*     point_record[sub_field.name] = unpack(data[dim_name], sub_field.mask)
RECURSIVE UnpackComposedDim(_, _, _, _)
UnpackComposedDim(record, source, subs, k) ==
    IF k > Len(subs) THEN BatchResult(NoError, record)
    ELSE IF subs[k].name \notin Range(record.names)
    \* no field of that name in point_record: NumPy raises ValueError
    THEN BatchResult(ValueError, record)
    ELSE UnpackComposedDim(
             [record EXCEPT !.cols[subs[k].name] = unpack(source, subs[k].mask).vals],
             source, subs, k + 1)

\* for dim_name in data.dtype.names: ...
RECURSIVE UnpackDims(_, _, _, _)
UnpackDims(record, dat, composed_dims, i) ==
    IF i > Len(dat.names) THEN BatchResult(NoError, record)
    ELSE LET dim_name == dat.names[i] IN
         IF dim_name \in DOMAIN composed_dims
         THEN LET r == UnpackComposedDim(record, dat.cols[dim_name], composed_dims[dim_name], 1)
              IN IF r.raised # NoError THEN r
                 ELSE UnpackDims(r.ret, dat, composed_dims, i + 1)
         ELSE IF dim_name \notin Range(record.names)
         THEN BatchResult(ValueError, record)
         ELSE UnpackDims([record EXCEPT !.cols[dim_name] = dat.cols[dim_name]],
                         dat, composed_dims, i + 1)

unpack_sub_fields(dat, fmt) ==
    UnpackDims(zeros_like(dat, fmt.dtype), dat, fmt.composed_fields, 1)

(***************************************************************************)
(* Inputs the caller draws                                                 *)
(***************************************************************************)
\* The column of n elements read from samples starting at position s, cyclically.
Column(samples, n, s) ==
    [i \in 1..n |-> samples[((s + i - 2) % Len(samples)) + 1]]

\* Container contents: 181 = 0b10110101.
DestSamples == <<181, 255, 0>>

\* Sub-field values.
SubSamples == <<5, 16, 2, 15, 0>>

\* The masks of the two sub-fields a caller layers into one container column;
\* the last pair holds the zero mask.
MaskPairs == { <<15, 240>>, <<5, 250>>, <<15, 60>>, <<0, 7>> }

\* Rows of a physical batch.
PhysicalRows ==
    << [bit_fields |-> 181, intensity |-> 200, raw_classification |-> 37],
       [bit_fields |-> 255, intensity |-> 65535, raw_classification |-> 255],
       [bit_fields |-> 42, intensity |-> 1, raw_classification |-> 64],
       [bit_fields |-> 0, intensity |-> 0, raw_classification |-> 0] >>

\* Rows of an expanded batch.
ExpandedRows ==
    << [return_number |-> 2, number_of_returns |-> 3, intensity |-> 200,
        classification |-> 5, class_flags |-> 1],
       [return_number |-> 5, number_of_returns |-> 7, intensity |-> 0,
        classification |-> 31, class_flags |-> 7],
       [return_number |-> 15, number_of_returns |-> 15, intensity |-> 65535,
        classification |-> 2, class_flags |-> 0],
       [return_number |-> 1, number_of_returns |-> 16, intensity |-> 9,
        classification |-> 1, class_flags |-> 1],
       [return_number |-> 3, number_of_returns |-> 1, intensity |-> 7,
        classification |-> 32, class_flags |-> 2],
       [return_number |-> 4, number_of_returns |-> 2, intensity |-> 8,
        classification |-> 3, class_flags |-> 8] >>

\* The batch of n rows read from rows starting at position s, with the fields names.
RowBatch(rows, names, n, s) ==
    Batch(names, n,
          [nm \in Range(names) |->
              [i \in 1..n |-> rows[((s + i - 2) % Len(rows)) + 1][nm]]])

(***************************************************************************)
(* The caller                                                              *)
(***************************************************************************)
NoCall ==
    [op |-> "none", k |-> 0, mask |-> 0, sub |-> <<>>, inplace |-> FALSE,
     before |-> <<>>, raised |-> NoError, ret |-> NoArray, pos |-> 0]

NoOrigin == [kind |-> "none", batch |-> NoBatch, ops |-> <<>>]

Init ==
    /\ pc = "idle"
    /\ array = <<>>
    /\ array0 = <<>>
    /\ sub_fields = <<>>
    /\ order = <<>>
    /\ last = NoCall
    /\ point_format = NoFormat
    /\ data = NoBatch
    /\ point_record = NoBatch
    /\ structured_array = NoBatch
    /\ repacked_array = NoBatch
    /\ dim_i = 0
    /\ sub_i = 0
    /\ error = NoError
    /\ origin = NoOrigin

batch_vars == <<point_format, data, point_record, structured_array, repacked_array,
                dim_i, sub_i, error, origin>>

\* The caller allocates a container column and the value columns of two sub-fields.
AllocateColumns ==
    /\ pc = "idle"
    /\ \E n \in 0..MaxLen, d \in 1..Len(DestSamples),
          a \in 1..Len(SubSamples), b \in 1..Len(SubSamples), mp \in MaskPairs :
           /\ array' = Column(DestSamples, n, d)
           /\ array0' = Column(DestSamples, n, d)
           /\ sub_fields' = << [mask |-> mp[1], values |-> Column(SubSamples, n, a)],
                               [mask |-> mp[2], values |-> Column(SubSamples, n, b)] >>
    /\ pc' = "prim"
    /\ UNCHANGED <<order, last, batch_vars>>

\* least_significant_bit(mask) on a sub-field's mask.
Call_least_significant_bit ==
    /\ pc = "prim"
    /\ \E k \in 1..Len(sub_fields) :
           last' = [NoCall EXCEPT !.op = "least_significant_bit", !.k = k,
                                  !.mask = sub_fields[k].mask, !.before = array,
                                  !.pos = least_significant_bit(sub_fields[k].mask)]
    /\ UNCHANGED <<pc, array, array0, sub_fields, order, batch_vars>>

\* unpack(array, mask) on the caller's container column.
Call_unpack ==
    /\ pc = "prim"
    /\ \E k \in 1..Len(sub_fields) :
           last' = [NoCall EXCEPT !.op = "unpack", !.k = k,
                                  !.mask = sub_fields[k].mask, !.before = array,
                                  !.ret = unpack(array, sub_fields[k].mask)]
    /\ UNCHANGED <<pc, array, array0, sub_fields, order, batch_vars>>

\* pack(array, values, mask, inplace=False): a new column is returned.
Call_pack_copy ==
    /\ pc = "prim"
    /\ \E k \in 1..Len(sub_fields) :
           LET r == pack(array, sub_fields[k].values, sub_fields[k].mask, FALSE)
           IN /\ last' = [NoCall EXCEPT !.op = "pack", !.k = k,
                                        !.mask = sub_fields[k].mask,
                                        !.sub = sub_fields[k].values, !.inplace = FALSE,
                                        !.before = array, !.raised = r.raised,
                                        !.ret = r.ret]
              /\ array' = r.array
    /\ UNCHANGED <<pc, array0, sub_fields, order, batch_vars>>

\* pack(array, values, mask, inplace=True): each sub-field is layered into the
\* container column once, in an order the caller chooses.
Call_pack_inplace ==
    /\ pc = "prim"
    /\ \E k \in 1..Len(sub_fields) :
           /\ k \notin Range(order)
           /\ LET r == pack(array, sub_fields[k].values, sub_fields[k].mask, TRUE)
              IN /\ last' = [NoCall EXCEPT !.op = "pack", !.k = k,
                                           !.mask = sub_fields[k].mask,
                                           !.sub = sub_fields[k].values, !.inplace = TRUE,
                                           !.before = array, !.raised = r.raised,
                                           !.ret = r.ret]
                 /\ array' = r.array
                 /\ order' = IF r.raised = NoError THEN Append(order, k) ELSE order
    /\ UNCHANGED <<pc, array0, sub_fields, batch_vars>>

prim_vars == <<array, array0, sub_fields, order, last>>

\* The outcome of unpack_sub_fields(dat, fmt) as the caller sees it.
AfterUnpack(dat, fmt) ==
    LET r == unpack_sub_fields(dat, fmt)
    IN /\ data' = dat
       /\ point_format' = fmt
       /\ error' = r.raised
       /\ point_record' = IF r.raised = NoError THEN r.ret ELSE NoBatch
       /\ pc' = IF r.raised = NoError THEN "unpacked" ELSE "failed"

\* unpack_sub_fields on a batch read from a file: in the physical schema, or with
\* the composed field bit_fields absent from it.
Call_unpack_sub_fields ==
    /\ pc = "idle"
    /\ \E f \in FormatIds, n \in 0..MaxLen, s \in 1..Len(PhysicalRows), present \in BOOLEAN :
           LET names == IF present THEN PackedNames
                        ELSE SelectSeq(PackedNames, LAMBDA nm : nm # "bit_fields")
               dat == RowBatch(PhysicalRows, names, n, s)
           IN /\ AfterUnpack(dat, UnpackedFormat(f))
              /\ origin' = [kind |-> IF present THEN "physical" ELSE "incomplete",
                            batch |-> dat, ops |-> <<"unpack">>]
    /\ UNCHANGED <<structured_array, repacked_array, dim_i, sub_i, prim_vars>>

\* unpack_sub_fields on the batch repack_sub_fields returned.
Call_unpack_sub_fields_on_repacked ==
    /\ pc = "repacked"
    /\ origin.ops = <<"repack">>
    /\ AfterUnpack(repacked_array, UnpackedFormat(point_format.id))
    /\ origin' = [origin EXCEPT !.ops = <<"repack", "unpack">>]
    /\ UNCHANGED <<structured_array, repacked_array, dim_i, sub_i, prim_vars>>

\* repack_sub_fields, lines 93-95: the zeroed output, the loop at its first field.
EnterRepack(arr, fmt) ==
    /\ structured_array' = arr
    /\ point_format' = fmt
    /\ repacked_array' = zeros_like(arr, fmt.dtype)
    /\ dim_i' = 1
    /\ sub_i' = 1
    /\ error' = NoError
    /\ pc' = "repacking"

\* repack_sub_fields on an expanded batch the caller built.
Call_repack_sub_fields ==
    /\ pc = "idle"
    /\ \E f \in FormatIds, n \in 0..MaxLen, s \in 1..Len(ExpandedRows) :
           LET arr == RowBatch(ExpandedRows, UnpackedNames, n, s)
           IN /\ EnterRepack(arr, PackedFormat(f))
              /\ origin' = [kind |-> "expanded", batch |-> arr, ops |-> <<>>]
    /\ UNCHANGED <<data, point_record, prim_vars>>

\* repack_sub_fields on the batch unpack_sub_fields returned.
Call_repack_sub_fields_on_unpacked ==
    /\ pc = "unpacked"
    /\ origin.ops = <<"unpack">>
    /\ EnterRepack(point_record, PackedFormat(point_format.id))
    /\ UNCHANGED <<origin, data, point_record, prim_vars>>

\* The field the loop of repack_sub_fields is at.
CurrentDim == repacked_array.names[dim_i]

\* else: repacked_array[dim_name] = structured_array[dim_name]
RepackPlainDim ==
    /\ pc = "repacking"
    /\ dim_i <= Len(repacked_array.names)
    /\ CurrentDim \notin DOMAIN point_format.composed_fields
    /\ repacked_array' =
           [repacked_array EXCEPT !.cols[CurrentDim] = structured_array.cols[CurrentDim]]
    /\ dim_i' = dim_i + 1
    /\ UNCHANGED <<pc, sub_i, error, point_format, data, point_record,
                   structured_array, origin, prim_vars>>

\* A faulty variant of RepackSubFieldOutcome: pack's exception is swallowed and
\* the loop goes on to the later sub-fields and fields.
RepackSubFieldOutcome_goes_on(r, sub_field, dim_name, column) ==
    [raised |-> NoError, column |-> r.array]

\* One iteration of _repack_composed_dim's loop, given pack's result r:
\* an OverflowError is raised again with the sub-field and the field named in
\* it and the original message kept; any other exception passes unchanged.
RepackSubFieldOutcome(r, sub_field, dim_name, column) ==
    IF r.raised.type = "OverflowError"
    THEN [raised |-> [r.raised EXCEPT !.sub_field = sub_field.name, !.dim = dim_name],
          column |-> r.array]
    ELSE [raised |-> r.raised, column |-> r.array]

\* _repack_composed_dim: pack(repacked_array[dim_name],
\*     structured_array[sub_field.name], sub_field.mask, inplace=True)
RepackSubField ==
    /\ pc = "repacking"
    /\ dim_i <= Len(repacked_array.names)
    /\ CurrentDim \in DOMAIN point_format.composed_fields
    /\ LET subs == point_format.composed_fields[CurrentDim]
           sub_field == subs[sub_i]
           r == pack(repacked_array.cols[CurrentDim],
                     structured_array.cols[sub_field.name], sub_field.mask, TRUE)
           o == RepackSubFieldOutcome(r, sub_field, CurrentDim,
                                      repacked_array.cols[CurrentDim])
       IN /\ repacked_array' = [repacked_array EXCEPT !.cols[CurrentDim] = o.column]
          /\ error' = o.raised
          /\ IF o.raised # NoError
             THEN /\ pc' = "failed"
                  /\ UNCHANGED <<dim_i, sub_i>>
             ELSE /\ pc' = pc
                  /\ IF sub_i < Len(subs)
                     THEN /\ sub_i' = sub_i + 1
                          /\ dim_i' = dim_i
                     ELSE /\ sub_i' = 1
                          /\ dim_i' = dim_i + 1
    /\ UNCHANGED <<point_format, data, point_record, structured_array, origin, prim_vars>>

\* return repacked_array
RepackReturn ==
    /\ pc = "repacking"
    /\ dim_i > Len(repacked_array.names)
    /\ pc' = "repacked"
    /\ origin' = [origin EXCEPT !.ops = Append(origin.ops, "repack")]
    /\ UNCHANGED <<point_format, data, point_record, structured_array, repacked_array,
                   dim_i, sub_i, error, prim_vars>>

Next ==
    \/ AllocateColumns
    \/ Call_least_significant_bit
    \/ Call_unpack
    \/ Call_pack_copy
    \/ Call_pack_inplace
    \/ Call_unpack_sub_fields
    \/ Call_unpack_sub_fields_on_repacked
    \/ Call_repack_sub_fields
    \/ Call_repack_sub_fields_on_unpacked
    \/ RepackPlainDim
    \/ RepackSubField
    \/ RepackReturn

Spec == Init /\ [][Next]_vars

(***************************************************************************)
(* Vocabulary of the properties, defined from the specification's words    *)
(* and not from the code's expressions                                     *)
(***************************************************************************)
Bit(x, b) == (x \div Pow2(b)) % 2

BitIndexes == 0..(UInt8Bits - 1)

\* The index of the lowest set bit of a nonzero mask.
LowestSetBit(mask) ==
    CHOOSE b \in BitIndexes : Bit(mask, b) = 1 /\ \A c \in 0..(b - 1) : Bit(mask, c) = 0

\* max_allowed = mask >> shift
MaxAllowed(mask) == mask \div Pow2(LowestSetBit(mask))

\* The largest element of a non-empty column.
MaxOf(col) == CHOOSE v \in Range(col) : \A w \in Range(col) : w <= v

Overflows(col, mask) == \E i \in 1..Len(col) : col[i] > MaxAllowed(mask)

DisjointMasks(m1, m2) == \A b \in BitIndexes : Bit(m1, b) = 0 \/ Bit(m2, b) = 0

\* The column the last pack call produced: the caller's array after an in-place
\* call, the returned column after a copy call.
PackedColumn == IF last.inplace THEN array ELSE last.ret.vals

PackSucceeded == last.op = "pack" /\ last.raised = NoError

(***************************************************************************)
(* C1  pack rejects an out-of-range value column before any mutation       *)
(***************************************************************************)
\* C1: in copy and in in-place mode, with a nonzero mask, when an element of the
\* value column exceeds max_allowed = mask >> shift the call raises the
\* OverflowError carrying the column maximum and max_allowed, returns no
\* column, and the destination column is as it was before the call.
C1_OverflowRejectedBeforeMutation ==
    (last.op = "pack" /\ last.mask # 0 /\ Overflows(last.sub, last.mask))
        => /\ last.raised = OverflowError(MaxOf(last.sub), MaxAllowed(last.mask))
           /\ last.ret = NoArray
           /\ array = last.before

\* An in-place pack of a column holding 16 and an in-range value under mask
\* 0b00001111 into a column with bits set under the mask failed with {16, 15}.
C1_Witness ==
    /\ last.op = "pack" /\ last.inplace /\ last.mask = 15
    /\ Len(last.sub) = 2 /\ 16 \in Range(last.sub) /\ 2 \in Range(last.sub)
    /\ last.raised = OverflowError(16, 15)
    /\ 181 \in Range(last.before)
    /\ array = last.before

(***************************************************************************)
(* C4  a successful pack alters only the masked bits                       *)
(***************************************************************************)
\* C4: after a successful pack, every bit of every element outside the mask is
\* the destination's bit before the call, and every bit under the mask is the
\* bit of value << shift.
C4_OnlyMaskedBitsAltered ==
    PackSucceeded =>
        /\ Len(PackedColumn) = Len(last.before)
        /\ \A i \in 1..Len(last.before) : \A b \in 0..(2 * UInt8Bits - 1) :
               Bit(PackedColumn[i], b) =
                   IF Bit(last.mask, b) = 1
                   THEN Bit(last.sub[i] * Pow2(LowestSetBit(last.mask)), b)
                   ELSE Bit(last.before[i], b)

\* A successful pack under mask 0b11110000 changed masked bits of 181 and kept
\* its low nibble.
C4_Witness ==
    /\ PackSucceeded /\ last.mask = 240
    /\ \E i \in 1..Len(last.before) :
           /\ last.before[i] = 181
           /\ last.sub[i] = 5
           /\ PackedColumn[i] = 85

(***************************************************************************)
(* C5  copy mode and in-place mode of pack                                 *)
(***************************************************************************)
\* C5: for an in-place pack call, the copy-mode call on the same destination
\* contents, value column and mask fails on exactly the same inputs, leaves
\* its destination untouched, and returns a column bit-identical to the
\* in-place destination: the same element type (the destination's uint8) and
\* the same elements; the in-place call returns nothing.
C5_InplaceCopyEquivalent ==
    (last.op = "pack" /\ last.inplace) =>
        LET copy == pack(last.before, last.sub, last.mask, FALSE)
        IN /\ copy.raised = last.raised
           /\ copy.array = last.before
           /\ last.ret = NoArray
           /\ last.raised = NoError => copy.ret = NdArray("uint8", array)

(***************************************************************************)
(* C6  layered packs under disjoint masks commute                          *)
(***************************************************************************)
\* C6: when the second sub-field and then the first were packed in place into
\* the container column and their masks are disjoint, the column holds the
\* bits that packing the first and then the second into the column's initial
\* content yields.
C6_LayeredPacksCommute ==
    (order = <<2, 1>> /\ DisjointMasks(sub_fields[1].mask, sub_fields[2].mask)) =>
        LET first == pack(array0, sub_fields[1].values, sub_fields[1].mask, TRUE)
            second == pack(first.array, sub_fields[2].values, sub_fields[2].mask, TRUE)
        IN /\ first.raised = NoError
           /\ second.raised = NoError
           /\ array = second.array

\* B (0xF0) then A (0x0F) were packed into a column that started with 181, and
\* both changed it.
C6_Witness ==
    /\ order = <<2, 1>>
    /\ sub_fields[1].mask = 15 /\ sub_fields[2].mask = 240
    /\ Len(array) = 2
    /\ array0[1] = 181
    /\ array[1] % 16 # 5 /\ array[1] \div 16 # 11

(***************************************************************************)
(* C7  unpack                                                              *)
(***************************************************************************)
\* C7: with a nonzero mask, unpack returns a uint8 column of the source's
\* length whose element i is (source[i] & mask) >> shift, read bit by bit: bit
\* b of the result is bit b + shift of the source where the mask has that
\* bit, and 0 elsewhere; the source column is not mutated.
C7_UnpackExtractsSubField ==
    (last.op = "unpack" /\ last.mask # 0) =>
        /\ last.ret.kind = "ndarray"
        /\ last.ret.dtype = "uint8"
        /\ Len(last.ret.vals) = Len(last.before)
        /\ \A i \in 1..Len(last.before) : \A b \in BitIndexes :
               Bit(last.ret.vals[i], b) =
                   LET c == b + LowestSetBit(last.mask)
                   IN IF Bit(last.mask, c) = 1 THEN Bit(last.before[i], c) ELSE 0
        /\ array = last.before
        /\ last.raised = NoError

\* 0b10110101 unpacked to 11 under mask 0b11110000.
C7_Witness ==
    /\ last.op = "unpack" /\ last.mask = 240
    /\ Len(last.before) = 2
    /\ last.before[1] = 181 /\ last.ret.vals[1] = 11
    /\ unpack(<<181>>, 15).vals = <<5>>

(***************************************************************************)
(* C8  zero mask                                                           *)
(***************************************************************************)
\* C8: least_significant_bit returns the index of the lowest set bit of a
\* nonzero mask and fails with InvalidMask for a zero mask; unpack and pack
\* called with a zero mask fail with InvalidMask and produce or mutate no
\* column.
C8_ZeroMaskFailsWithInvalidMask ==
    /\ (last.op = "least_significant_bit" /\ last.mask # 0)
           => last.pos = LowestSetBit(last.mask)
    /\ (last.op # "none" /\ last.mask = 0)
           => /\ last.raised.type = "InvalidMask"
              /\ last.ret = NoArray
              /\ array = last.before

(***************************************************************************)
(* Record-level vocabulary                                                 *)
(***************************************************************************)
\* The sub-fields of every composed field of a format, pairwise disjoint.
FormatMasksDisjoint(fmt) ==
    \A dim \in DOMAIN fmt.composed_fields :
        LET subs == fmt.composed_fields[dim]
        IN \A j, k \in 1..Len(subs) : j # k => DisjointMasks(subs[j].mask, subs[k].mask)

\* Every sub-field value of an expanded batch is at most its mask's max_allowed.
BatchInRange(batch, fmt) ==
    \A dim \in DOMAIN fmt.composed_fields :
        \A k \in 1..Len(fmt.composed_fields[dim]) :
            LET sub_field == fmt.composed_fields[dim][k]
            IN ~Overflows(batch.cols[sub_field.name], sub_field.mask)

\* The number whose bit b is bits[b].
RECURSIVE FromBits(_, _)
FromBits(bits, b) ==
    IF b >= UInt8Bits THEN 0 ELSE bits[b] * Pow2(b) + FromBits(bits, b + 1)

\* Element i of a zeroed container column after the first m sub-fields of subs
\* were layered into it in declared order: each bit comes from the last
\* sub-field whose mask has it.
LayeredElement(batch, subs, m, i) ==
    FromBits([b \in BitIndexes |->
                 LET js == {j \in 1..m : Bit(subs[j].mask, b) = 1}
                 IN IF js = {} THEN 0
                    ELSE LET j == CHOOSE x \in js : \A y \in js : y <= x
                         IN Bit(batch.cols[subs[j].name][i] * Pow2(LowestSetBit(subs[j].mask)), b)],
             0)

\* The output column of field number d when the repacker stands at sub-field k
\* of field number at: fields before at are complete, at holds its first k - 1
\* sub-fields (nothing yet if it is a plain field), fields after at are still zero.
ExpectedColumn(batch, fmt, d, at, k) ==
    LET dim == fmt.dtype[d]
        composed == dim \in DOMAIN fmt.composed_fields
    IN [i \in 1..batch.n |->
           IF d > at \/ (d = at /\ ~composed) THEN 0
           ELSE IF ~composed THEN batch.cols[dim][i]
           ELSE LayeredElement(batch, fmt.composed_fields[dim],
                               IF d < at THEN Len(fmt.composed_fields[dim]) ELSE k - 1, i)]

\* Sub-field k of field number d overflows, and no sub-field before it in
\* declared order does.
FirstOffender(batch, fmt, d, k) ==
    /\ fmt.dtype[d] \in DOMAIN fmt.composed_fields
    /\ LET subs == fmt.composed_fields[fmt.dtype[d]]
       IN /\ Overflows(batch.cols[subs[k].name], subs[k].mask)
          /\ \A j \in 1..(k - 1) : ~Overflows(batch.cols[subs[j].name], subs[j].mask)
    /\ \A e \in 1..(d - 1) :
           fmt.dtype[e] \in DOMAIN fmt.composed_fields =>
               \A j \in 1..Len(fmt.composed_fields[fmt.dtype[e]]) :
                   LET sf == fmt.composed_fields[fmt.dtype[e]][j]
                   IN ~Overflows(batch.cols[sf.name], sf.mask)

(***************************************************************************)
(* C2  repack(unpack(x)) == x                                              *)
(***************************************************************************)
\* C2: for a point format whose composed fields have mutually disjoint
\* sub-field masks and a batch x in the physical schema, unpacking x and
\* repacking the result ends with a batch equal to x, column for column.
C2_RepackOfUnpackIsIdentity ==
    (/\ origin.kind = "physical"
     /\ FormatMasksDisjoint(point_format)
     /\ "unpack" \in Range(origin.ops)
     /\ pc \in {"repacked", "failed"})
        => /\ pc = "repacked"
           /\ repacked_array = origin.batch

(***************************************************************************)
(* C3  unpack(repack(x)) == x                                              *)
(***************************************************************************)
\* C3: for a point format whose composed fields have mutually disjoint
\* sub-field masks and an expanded batch x whose sub-field values are each at
\* most max_allowed, repacking x and unpacking the result ends with a batch
\* equal to x, column for column.
C3_UnpackOfRepackIsIdentity ==
    (/\ origin.kind = "expanded"
     /\ FormatMasksDisjoint(point_format)
     /\ BatchInRange(origin.batch, point_format)
     /\ \/ pc = "failed"
        \/ pc = "unpacked" /\ origin.ops = <<"repack", "unpack">>)
        => /\ pc = "unpacked"
           /\ point_record = origin.batch

(***************************************************************************)
(* C9  a composed field absent from the input batch                        *)
(***************************************************************************)
\* C9: when the descriptor defines a composed field that the input batch does
\* not have, unpack_sub_fields fails with SchemaMismatch and returns no
\* expanded batch.
C9_MissingComposedFieldIsSchemaMismatch ==
    (origin.kind = "incomplete" /\ pc # "idle")
        => /\ pc = "failed"
           /\ error.type = "SchemaMismatch"
           /\ point_record = NoBatch

(***************************************************************************)
(* C10  failure semantics of repack_sub_fields                             *)
(***************************************************************************)
\* C10: while repack_sub_fields runs, its output holds the fields before the
\* current one as computed (composed fields layered from zero in declared
\* order, plain fields copied), the first sub_i - 1 sub-fields of the current
\* field, and zero in every later field.  When it has failed with an
\* OverflowError, the error names the first offending sub-field in declared
\* order and its composed field and carries the original offending value and
\* allowed maximum, and the output is exactly as just before the failing pack
\* call.  It returns normally only if no sub-field overflowed.
C10_RepackFailureSemantics ==
    /\ ((pc \in {"repacking", "repacked"} \/ (pc = "failed" /\ error.type = "OverflowError"))
        /\ structured_array # NoBatch /\ dim_i > 0)
           => \A d \in 1..Len(point_format.dtype) :
                  repacked_array.cols[point_format.dtype[d]] =
                      ExpectedColumn(structured_array, point_format, d, dim_i, sub_i)
    /\ (pc = "failed" /\ error.type = "OverflowError")
           => /\ FirstOffender(structured_array, point_format, dim_i, sub_i)
              /\ LET sub_field == point_format.composed_fields[CurrentDim][sub_i]
                 IN /\ error.sub_field = sub_field.name
                    /\ error.dim = CurrentDim
                    /\ error.value = MaxOf(structured_array.cols[sub_field.name])
                    /\ error.max = MaxAllowed(sub_field.mask)
    /\ (pc = "repacked" /\ structured_array.n > 0)
           => BatchInRange(structured_array, point_format)

\* repack_sub_fields failed at the first sub-field of the third field,
\* raw_classification, with bit_fields and intensity computed and nonzero.
C10_Witness ==
    /\ pc = "failed" /\ error.type = "OverflowError"
    /\ error.dim = "raw_classification" /\ error.sub_field = "classification"
    /\ error.value = 32 /\ error.max = 31
    /\ structured_array.n = 2
    /\ \A i \in 1..2 : repacked_array.cols["bit_fields"][i] # 0
    /\ \A i \in 1..2 : repacked_array.cols["intensity"][i] # 0
    /\ \A i \in 1..2 : repacked_array.cols["raw_classification"][i] = 0

====
